---- MODULE Spec2Model ----
(***************************************************************************)
(* Model of dungeon_generator/models.py: the map generator (Mapa), the     *)
(* content distributor (Mapa.colocar_contenido), the explorer              *)
(* (Explorador) and the encounters (Tesoro, Monstruo, Jefe).               *)
(*                                                                         *)
(* Rooms live in one collection keyed by coordinates; a connection stores  *)
(* the coordinates of the neighbouring room (the Python object it points   *)
(* to is the value of Mapa.habitaciones at those coordinates).  Names of   *)
(* monsters and bosses and the descriptions of objects only appear in the  *)
(* returned text and are left out; an Objeto is identified by its nombre.  *)
(* The text returned by an operation is modelled by a tag.                 *)
(***************************************************************************)
EXTENDS Integers, Sequences, FiniteSets, TLC

VARIABLES
    ancho,              \* Mapa.ancho
    alto,               \* Mapa.alto
    habitaciones,       \* Mapa.habitaciones: (x, y) -> Habitacion
    habitacion_inicial, \* Mapa.habitacion_inicial: coordinates, or Ninguna
    generada,           \* outcome of the last call that rebuilt the topology
    posicion_actual,    \* Explorador.posicion_actual, Ninguna before creation
    vida,               \* Explorador.vida
    inventario,         \* Explorador.inventario
    combate,            \* frame of a running Monstruo/Jefe.interactuar
    ultimo              \* the last call made and what it returned

vars == <<ancho, alto, habitaciones, habitacion_inicial, generada,
          posicion_actual, vida, inventario, combate, ultimo>>

(***************************************************************************)
(* Bounds of the model.                                                    *)
(***************************************************************************)
\* SpecGen: generation alone, every sampling order, on grids of at most
\* GenMaxAncho x GenMaxAlto and GenMaxCeldas cells, up to GenMaxN rooms.
GenMaxAncho == 4
GenMaxAlto == 3
GenMaxCeldas == 12
GenMaxN == 3
\* Spec: generation, content, exploration on a grid of at most MaxCeldas
\* cells; every sampling order.
MaxCeldas == 3
\* SpecCol: generation and content alone on a grid of at most
\* ColMaxAncho x ColMaxAlto and ColMaxCeldas cells, up to ColMaxN rooms;
\* every sampling order.
ColMaxAncho == 3
ColMaxAlto == 2
ColMaxCeldas == 6
ColMaxN == 4
\* SpecRegen: the run of Spec with regeneration at any time, on a grid of
\* at most RegenMaxCeldas cells; every sampling order.
RegenMaxCeldas == 2
\* SpecPelea: a monster built directly with vida up to PeleaMaxVida and
\* ataque up to PeleaMaxAtaque, in a map of two rooms.
PeleaMaxVida == 4
PeleaMaxAtaque == 2

(***************************************************************************)
(* Values.                                                                 *)
(***************************************************************************)
Ninguna == <<>>
MapaVacio == <<>>

\* The encounter payload of a room; tipo "Ninguno" is Python's None.
Nada == [tipo |-> "Ninguno", vida |-> 0, ataque |-> 0, recompensa |-> "-"]
Tesoro(objeto) ==
    [tipo |-> "Tesoro", vida |-> 0, ataque |-> 0, recompensa |-> objeto]
Monstruo(v, a) ==
    [tipo |-> "Monstruo", vida |-> v, ataque |-> a, recompensa |-> "-"]
Jefe(v, a, objeto) ==
    [tipo |-> "Jefe", vida |-> v, ataque |-> a, recompensa |-> objeto]

Habitacion(i, es_inicial, con) ==
    [id |-> i, inicial |-> es_inicial, contenido |-> Nada,
     conexiones |-> con, visitada |-> FALSE]

VidaInicial == 5
VidaJefe == 5
AtaqueJefe == 2
VidaMonstruoMin == 2
VidaMonstruoMax == 4
AtaqueMonstruoMin == 1
AtaqueMonstruoMax == 2
DivisorMonstruos == 4
DivisorTesoros == 5

RecompensasJefe == {"Corona Dorada", "Gema del Poder", "Espada Legendaria"}
ObjetosTesoro ==
    {"Monedas de Oro", "Pocion de Vida", "Gema Preciosa", "Espada de Hierro"}

\* direcciones, in the insertion order of the dict.
DirSeq == <<"norte", "sur", "este", "oeste">>
Direcciones == {DirSeq[i] : i \in 1..Len(DirSeq)}
Delta(d) ==
    CASE d = "norte" -> <<0, -1>>
      [] d = "sur" -> <<0, 1>>
      [] d = "este" -> <<1, 0>>
      [] d = "oeste" -> <<-1, 0>>

Mas(pos, d) == <<pos[1] + Delta(d)[1], pos[2] + Delta(d)[2]>>

(***************************************************************************)
(* Mapa.generar_estructura                                                 *)
(***************************************************************************)
\* todas_posiciones, as a set.
TodasPosiciones(w, h) == {<<x, y>> : x \in 0..(w - 1), y \in 0..(h - 1)}

\* The outcomes of random.sample(todas_posiciones, n): the sequences of n
\* distinct cells.
RECURSIVE Muestras(_, _, _)
Muestras(n, w, h) ==
    IF n = 0
    THEN {<<>>}
    ELSE UNION {{Append(s, c) :
                    c \in TodasPosiciones(w, h) \ {s[i] : i \in 1..Len(s)}} :
                s \in Muestras(n - 1, w, h)}

NInvalido(n, w, h) == n > w * h \/ n < 1

EsBorde(pos, w, h) ==
    pos[1] = 0 \/ pos[1] = w - 1 \/ pos[2] = 0 \/ pos[2] = h - 1

\* posiciones_borde, as a set.
PosicionesBorde(muestra, w, h) ==
    {muestra[i] : i \in {j \in 1..Len(muestra) : EsBorde(muestra[j], w, h)}}

\* pos_inicial with the last sampled cell as the fallback.
PosInicialUltima(muestra, w, h) ==
    IF PosicionesBorde(muestra, w, h) # {}
    THEN PosicionesBorde(muestra, w, h)
    ELSE {muestra[Len(muestra)]}

\* The values pos_inicial can take: random.choice(posiciones_borde), or the
\* first sampled cell when no sampled cell is on the border.
PosInicial(muestra, w, h) ==
    IF PosicionesBorde(muestra, w, h) # {}
    THEN PosicionesBorde(muestra, w, h)
    ELSE {muestra[1]}

\* The connecting loop storing each adjacency once, from the room to the
\* neighbour at the south or the east, and not back.
ConexionesSoloIda(pos, celdas) ==
    [d \in {e \in {"sur", "este"} : Mas(pos, e) \in celdas} |-> Mas(pos, d)]

\* The connections of the room at pos once every sampled cell has a room.
Conexiones(pos, celdas) ==
    [d \in {e \in Direcciones : Mas(pos, e) \in celdas} |-> Mas(pos, d)]

\* The rooms built from the sample, connected to their neighbours.
Construir(muestra, pos_inicial) ==
    LET celdas == {muestra[i] : i \in 1..Len(muestra)}
        ident(p) == (CHOOSE i \in 1..Len(muestra) : muestra[i] = p) - 1
    IN  [p \in celdas |->
            Habitacion(ident(p), p = pos_inicial, Conexiones(p, celdas))]

\* self.habitacion_inicial after the loop that creates the rooms.
InicialDe(muestra, pos_inicial) ==
    IF \E i \in 1..Len(muestra) : muestra[i] = pos_inicial
    THEN pos_inicial
    ELSE Ninguna

\* The traversal appending only the first neighbour not yet in visitadas.
PorVisitarPrimero(habs, pos, visitadas) ==
    LET ds == SelectSeq(DirSeq, LAMBDA d :
                  /\ d \in DOMAIN habs[pos].conexiones
                  /\ habs[pos].conexiones[d] \notin visitadas)
    IN  [i \in 1..(IF Len(ds) > 0 THEN 1 ELSE 0) |->
            habs[pos].conexiones[ds[i]]]

\* The neighbours appended to cola: conexiones.values() not yet in visitadas.
PorVisitar(habs, pos, visitadas) ==
    LET ds == SelectSeq(DirSeq, LAMBDA d :
                  /\ d \in DOMAIN habs[pos].conexiones
                  /\ habs[pos].conexiones[d] \notin visitadas)
    IN  [i \in 1..Len(ds) |-> habs[pos].conexiones[ds[i]]]

\* The traversal of lines 112-127: the set visitadas when cola is empty.
RECURSIVE Recorrido(_, _, _)
Recorrido(habs, cola, visitadas) ==
    IF cola = <<>>
    THEN visitadas
    ELSE LET pos_actual == Head(cola)
         IN  IF pos_actual \notin visitadas
             THEN Recorrido(habs,
                      Tail(cola) \o
                          PorVisitar(habs, pos_actual, visitadas \cup {pos_actual}),
                      visitadas \cup {pos_actual})
             ELSE Recorrido(habs, Tail(cola), visitadas)

\* The final check comparing with 1 instead of n_habitaciones.
TodasAccesiblesSinCuenta(habs, inicial, n) ==
    Cardinality(Recorrido(habs, <<inicial>>, {})) >= 1

\* The final check: len(visitadas) == n_habitaciones.
TodasAccesibles(habs, inicial, n) ==
    Cardinality(Recorrido(habs, <<inicial>>, {})) = n

\* habitaciones.clear() placed before the validation of n.
MapaTrasGenerarLimpiaAntes(n, muestra, pos_inicial, habs, w, h) ==
    IF NInvalido(n, w, h) THEN MapaVacio ELSE Construir(muestra, pos_inicial)

\* generar_estructura without habitaciones.clear(): the new rooms are written
\* over the old dict.
MapaTrasGenerarSinClear(n, muestra, pos_inicial, habs, w, h) ==
    IF NInvalido(n, w, h)
    THEN habs
    ELSE LET nuevas == Construir(muestra, pos_inicial)
         IN  [p \in DOMAIN habs \cup DOMAIN nuevas |->
                 IF p \in DOMAIN nuevas THEN nuevas[p] ELSE habs[p]]

\* Mapa.habitaciones when the call ends, by return or by raise.
MapaTrasGenerar(n, muestra, pos_inicial, habs, w, h) ==
    IF NInvalido(n, w, h) THEN habs ELSE Construir(muestra, pos_inicial)

\* habitacion_inicial = None placed before the validation of n.
InicialTrasGenerarLimpiaAntes(n, muestra, pos_inicial, inicial, w, h) ==
    IF NInvalido(n, w, h) THEN Ninguna ELSE InicialDe(muestra, pos_inicial)

\* Mapa.habitacion_inicial when the call ends, by return or by raise.
InicialTrasGenerar(n, muestra, pos_inicial, inicial, w, h) ==
    IF NInvalido(n, w, h) THEN inicial ELSE InicialDe(muestra, pos_inicial)

\* What the call does, given the rooms and the start reference it leaves:
\* "ok" on return, else the exception raised.
ResultadoGenerar(n, habs, inicial, w, h) ==
    IF NInvalido(n, w, h) THEN "ValueError"
    ELSE IF inicial = Ninguna THEN "SinInicial"
    ELSE IF ~TodasAccesibles(habs, inicial, n) THEN "Desconectado"
    ELSE "ok"

Llamada(op, n, dir, res, previa, rondas) ==
    [op |-> op, n |-> n, dir |-> dir, res |-> res, previa |-> previa,
     rondas |-> rondas]

\* No interactuar of a Monstruo or Jefe is running.  A running one holds
\* the enemy's tipo, its local vida (monstruo_vida, jefe_vida), the rounds
\* played and the explorer's vida when the fight was entered.
SinCombate ==
    [tipo |-> "Ninguno", enemigo_vida |-> 0, rondas |-> 0, vida_entrada |-> 0]

\* generar_estructura(n) with the sample and the start cell the random
\* source gave; for an invalid n neither is drawn.
generar_estructura(n, muestra, pos_inicial) ==
    LET habs == MapaTrasGenerar(n, muestra, pos_inicial, habitaciones,
                                ancho, alto)
        inicial == InicialTrasGenerar(n, muestra, pos_inicial,
                                      habitacion_inicial, ancho, alto)
        res == ResultadoGenerar(n, habs, inicial, ancho, alto)
    IN  /\ combate = SinCombate
        /\ habitaciones' = habs
        /\ habitacion_inicial' = inicial
        /\ generada' = IF res = "ValueError" THEN generada ELSE res
        /\ ultimo' = Llamada("generar", n, "-", res, "-", 0)
        /\ UNCHANGED <<ancho, alto, posicion_actual, vida, inventario,
                       combate>>

(***************************************************************************)
(* Mapa.colocar_contenido                                                  *)
(***************************************************************************)
Max(a, b) == IF a > b THEN a ELSE b
Min(a, b) == IF a < b THEN a ELSE b

\* _obtener_esquinas, as a set.
Esquinas(w, h) == {<<0, 0>>, <<0, h - 1>>, <<w - 1, 0>>, <<w - 1, h - 1>>}

\* habitaciones_disponibles: the rooms that are not the start room.
Disponibles(habs) == {p \in DOMAIN habs : ~habs[p].inicial}

\* habitaciones_restantes without the filter on contenido.
RestantesSinFiltro(habs) == Disponibles(habs)

\* habitaciones_restantes: the available rooms still without content.
Restantes(habs) == {p \in Disponibles(habs) : habs[p].contenido = Nada}

\* The bosses _crear_jefe_aleatorio can return.
Jefes == {Jefe(VidaJefe, AtaqueJefe, r) : r \in RecompensasJefe}

\* The monsters _crear_monstruo_aleatorio can return.
Monstruos ==
    {Monstruo(v, a) : v \in VidaMonstruoMin..VidaMonstruoMax,
                      a \in AtaqueMonstruoMin..AtaqueMonstruoMax}

\* The treasures _crear_tesoro_aleatorio can return.
Tesoros == {Tesoro(o) : o \in ObjetosTesoro}

\* The room the boss step writes to for the corner random.choice returned:
\* the corner itself when a room stands there, else none.
DestinoJefe(habs, jefe_pos) ==
    IF jefe_pos \in DOMAIN habs THEN {jefe_pos} ELSE {}

\* The maps the boss step can leave.
TrasJefe(habs, w, h) ==
    {IF DestinoJefe(habs, e) # {}
        THEN [habs EXCEPT ![e].contenido = j]
        ELSE habs : e \in Esquinas(w, h), j \in Jefes}

\* num_monstruos without the minimum of one.
NumMonstruosSinMinimo(restantes) == restantes \div DivisorMonstruos

\* num_monstruos = max(1, len(habitaciones_restantes) // 4)
NumMonstruos(restantes) == Max(1, restantes \div DivisorMonstruos)

\* num_tesoros without the minimum of one.
NumTesorosSinMinimo(restantes) == restantes \div DivisorTesoros

\* num_tesoros = max(1, len(habitaciones_restantes) // 5)
NumTesoros(restantes) == Max(1, restantes \div DivisorTesoros)

\* k rounds of: pick a room of restantes at random, give it one of
\* contenidos, remove it from restantes.  The pairs <<map, restantes>> left.
RECURSIVE Repartir(_, _, _, _)
Repartir(habs, restantes, k, contenidos) ==
    IF k = 0
    THEN {<<habs, restantes>>}
    ELSE UNION {Repartir([habs EXCEPT ![p].contenido = c],
                         restantes \ {p}, k - 1, contenidos) :
                    p \in restantes, c \in contenidos}

\* The monster step: num_monstruos rooms of habitaciones_restantes, or all
\* of them when they are fewer, each given a monster; the pairs
\* <<map, habitaciones_restantes>> it can leave.
TrasMonstruos(habs) ==
    LET restantes == Restantes(habs)
    IN  Repartir(habs, restantes,
                 Min(NumMonstruos(Cardinality(restantes)),
                     Cardinality(restantes)),
                 Monstruos)

\* The treasure step on what the monster step left: the maps it can leave.
TrasTesoros(habs, restantes) ==
    {fin[1] : fin \in Repartir(habs, restantes,
                               Min(NumTesoros(Cardinality(restantes)),
                                   Cardinality(restantes)),
                               Tesoros)}

\* colocar_contenido without the early return of lines 140-141.
SinDisponiblesNunca(habs) == FALSE

\* The early return of line 140: no room other than the start room.
SinDisponibles(habs) == Disponibles(habs) = {}

colocar_contenido ==
    /\ combate = SinCombate
    /\ IF SinDisponibles(habitaciones)
       THEN habitaciones' = habitaciones
       ELSE \E hj \in TrasJefe(habitaciones, ancho, alto) :
              \E par \in TrasMonstruos(hj) :
                \E fin \in TrasTesoros(par[1], par[2]) :
                  habitaciones' = fin
    /\ ultimo' = Llamada("colocar", 0, "-", "ok", "-", 0)
    /\ UNCHANGED <<ancho, alto, habitacion_inicial, generada,
                   posicion_actual, vida, inventario, combate>>

(***************************************************************************)
(* Explorador                                                              *)
(***************************************************************************)
\* Explorador(mapa=mapa, posicion_actual=pos): vida 5, empty inventario.
CrearExplorador(pos) ==
    /\ posicion_actual = Ninguna
    /\ combate = SinCombate
    /\ posicion_actual' = pos
    /\ vida' = VidaInicial
    /\ inventario' = <<>>
    /\ ultimo' = Llamada("crear", 0, "-", "ok", "-", 0)
    /\ UNCHANGED <<ancho, alto, habitaciones, habitacion_inicial, generada,
                   combate>>

\* mover succeeds: a room stands at pos and d is a key of its conexiones.
PuedeMover(habs, pos, d) ==
    /\ pos \in DOMAIN habs
    /\ d \in DOMAIN habs[pos].conexiones

\* mover without the check of the key: steps by the offset of d.
PosTrasMoverSinLlave(habs, pos, d) ==
    IF pos \in DOMAIN habs THEN Mas(pos, d) ELSE pos

\* mover that never updates posicion_actual.
PosTrasMoverQuieto(habs, pos, d) == pos

\* posicion_actual when mover returns.
PosTrasMover(habs, pos, d) ==
    IF PuedeMover(habs, pos, d) THEN habs[pos].conexiones[d] ELSE pos

mover(d) ==
    /\ posicion_actual # Ninguna
    /\ combate = SinCombate
    /\ posicion_actual' = PosTrasMover(habitaciones, posicion_actual, d)
    /\ ultimo' = Llamada("mover", 0, d,
                     IF PuedeMover(habitaciones, posicion_actual, d)
                     THEN "True" ELSE "False", "-", 0)
    /\ UNCHANGED <<ancho, alto, habitaciones, habitacion_inicial, generada,
                   vida, inventario, combate>>

\* recibir_dano without the floor at 0.
recibir_dano_sin_piso(v, cantidad) == v - cantidad

\* Explorador.recibir_dano: vida afterwards.
recibir_dano(v, cantidad) == IF v - cantidad < 0 THEN 0 ELSE v - cantidad

\* esta_vivo that holds at vida 0 too.
esta_vivo_con_cero(v) == v >= 0

\* esta_vivo comparing with 1 instead of 0.
esta_vivo_sobre_uno(v) == v > 1

\* Explorador.esta_vivo
esta_vivo(v) == v > 0

\* explorar_habitacion without the clearing of lines 298-299.
ContenidoSinLimpiar(c) == c

\* The room's contenido when explorar_habitacion returns after interactuar.
ContenidoTrasInteractuar(c) ==
    IF c.tipo \in {"Tesoro", "Monstruo", "Jefe"} THEN Nada ELSE c

\* Tesoro.interactuar putting the reward at the front of the inventario.
TomarTesoroAlFrente(inv, c) == <<c.recompensa>> \o inv

\* Tesoro.interactuar: the inventario after the append of the recompensa.
TomarTesoro(inv, c) == Append(inv, c.recompensa)

\* explorar_habitacion without the assignment of line 288.
MarcarVisitadaNunca(habs, pos) == habs

\* habitacion_actual.visitada = True
MarcarVisitada(habs, pos) == [habs EXCEPT ![pos].visitada = TRUE]

\* res of the call before this one when that was explorar_habitacion too.
Previa == IF ultimo.op = "explorar" THEN ultimo.res ELSE "-"

\* explorar_habitacion up to the entry of the combat loop; without a
\* monster the whole call.
ExplorarInicio ==
    /\ posicion_actual # Ninguna
    /\ combate = SinCombate
    /\ UNCHANGED <<ancho, alto, habitacion_inicial, generada, posicion_actual,
                   vida>>
    /\ IF posicion_actual \notin DOMAIN habitaciones
       THEN /\ ultimo' = Llamada("explorar", 0, "-", "no_hay", Previa, 0)
            /\ UNCHANGED <<habitaciones, inventario, combate>>
       ELSE LET c == habitaciones[posicion_actual].contenido
                vista == MarcarVisitada(habitaciones, posicion_actual)
            IN  CASE c.tipo = "Ninguno" ->
                       /\ habitaciones' = vista
                       /\ ultimo' = Llamada("explorar", 0, "-", "vacia",
                                            Previa, 0)
                       /\ UNCHANGED <<inventario, combate>>
                  [] c.tipo = "Tesoro" ->
                       /\ inventario' = TomarTesoro(inventario, c)
                       /\ habitaciones' =
                              [vista EXCEPT ![posicion_actual].contenido =
                                  ContenidoTrasInteractuar(c)]
                       /\ ultimo' = Llamada("explorar", 0, "-", "tesoro",
                                            Previa, 0)
                       /\ UNCHANGED combate
                  [] OTHER ->
                       /\ habitaciones' = vista
                       /\ combate' = [tipo |-> c.tipo, enemigo_vida |-> c.vida,
                                      rondas |-> 0, vida_entrada |-> vida]
                       /\ ultimo' = Llamada("explorar", 0, "-", "en_curso",
                                            Previa, 0)
                       /\ UNCHANGED inventario

\* The loop condition leaving the fight one point of enemy vida early.
SigueCombateHastaUno == combate.enemigo_vida > 1 /\ esta_vivo(vida)

\* The loop condition of Monstruo.interactuar and Jefe.interactuar.
SigueCombate == combate.enemigo_vida > 0 /\ esta_vivo(vida)

\* A hit that leaves the enemy's vida as it was.
EnemigoTrasGolpeIgual(v) == v

\* monstruo_vida -= 1 (jefe_vida -= 1)
EnemigoTrasGolpe(v) == v - 1

\* One round: the explorer hits (random() under 0.6, or 0.4 for a boss) or
\* is hit.
RondaCombate(acierta) ==
    /\ combate.tipo # "Ninguno"
    /\ SigueCombate
    /\ IF acierta
       THEN /\ combate' = [combate EXCEPT !.enemigo_vida = EnemigoTrasGolpe(@),
                                          !.rondas = @ + 1]
            /\ UNCHANGED vida
       ELSE /\ vida' = recibir_dano(vida,
                           habitaciones[posicion_actual].contenido.ataque)
            /\ combate' = [combate EXCEPT !.rondas = @ + 1]
    /\ UNCHANGED <<ancho, alto, habitaciones, habitacion_inicial, generada,
                   posicion_actual, inventario, ultimo>>

\* Jefe.interactuar without the append of line 452: only the bonus is given.
BotinSoloBono(c, bono) ==
    IF c.tipo = "Jefe" /\ bono THEN <<c.recompensa>> ELSE <<>>

\* What a won fight adds to the inventario: nothing for a Monstruo, the
\* recompensa_especial of a Jefe, twice when the bonus draw is under 0.3.
Botin(c, bono) ==
    IF c.tipo = "Jefe"
    THEN IF bono THEN <<c.recompensa, c.recompensa>> ELSE <<c.recompensa>>
    ELSE <<>>

\* After the loop: the outcome, the reward, and back in explorar_habitacion
\* the contenido is cleared.
FinCombate(bono) ==
    /\ combate.tipo # "Ninguno"
    /\ ~SigueCombate
    /\ LET c == habitaciones[posicion_actual].contenido
       IN  /\ inventario' = IF esta_vivo(vida)
                            THEN inventario \o Botin(c, bono)
                            ELSE inventario
           /\ habitaciones' = [habitaciones EXCEPT
                  ![posicion_actual].contenido = ContenidoTrasInteractuar(c)]
    /\ ultimo' = Llamada("explorar", 0, "-",
                     IF esta_vivo(vida) THEN "victoria" ELSE "derrota",
                     ultimo.previa, combate.rondas)
    /\ combate' = SinCombate
    /\ UNCHANGED <<ancho, alto, habitacion_inicial, generada, posicion_actual,
                   vida>>

(***************************************************************************)
(* Specifications                                                          *)
(***************************************************************************)
InitCon(maxAncho, maxAlto, maxCeldas) ==
    /\ ancho \in 1..maxAncho
    /\ alto \in 1..maxAlto
    /\ ancho * alto <= maxCeldas
    /\ habitaciones = MapaVacio
    /\ habitacion_inicial = Ninguna
    /\ generada = "no"
    /\ posicion_actual = Ninguna
    /\ vida = 0
    /\ inventario = <<>>
    /\ combate = SinCombate
    /\ ultimo = Llamada("crear_mapa", 0, "-", "ok", "-", 0)

\* A call with a number of rooms the map cannot hold.
GenerarInvalida ==
    \E n \in {0, ancho * alto + 1} : generar_estructura(n, <<>>, Ninguna)

\* SpecGen: Mapa(ancho, alto), one generation with any sample, and calls
\* with an invalid number of rooms at any time.
InitGen == InitCon(GenMaxAncho, GenMaxAlto, GenMaxCeldas)

GenerarGen ==
    /\ generada = "no"
    /\ \E n \in 1..Min(GenMaxN, ancho * alto) :
         \E muestra \in Muestras(n, ancho, alto) :
           \E p \in PosInicial(muestra, ancho, alto) :
             generar_estructura(n, muestra, p)

NextGen == GenerarGen \/ GenerarInvalida

SpecGen == InitGen /\ [][NextGen]_vars

\* Spec: the run of main(): generate, place the content, create the
\* explorer, then move and explore.
Init == InitCon(MaxCeldas, MaxCeldas, MaxCeldas)

Fresco(habs) ==
    \A p \in DOMAIN habs : habs[p].contenido = Nada /\ ~habs[p].visitada

Generar ==
    /\ generada = "no"
    /\ \E n \in 1..(ancho * alto) :
         \E muestra \in Muestras(n, ancho, alto) :
           \E p \in PosInicial(muestra, ancho, alto) :
             generar_estructura(n, muestra, p)

Colocar ==
    /\ generada = "ok"
    /\ posicion_actual = Ninguna
    /\ Fresco(habitaciones)
    /\ colocar_contenido

Crear ==
    /\ generada = "ok"
    /\ ultimo.op = "colocar"
    /\ \E pos \in {habitacion_inicial}
                    \cup (TodasPosiciones(ancho, alto) \ DOMAIN habitaciones) :
         CrearExplorador(pos)

Mover == \E d \in Direcciones : mover(d)

Ronda == \E acierta \in BOOLEAN : RondaCombate(acierta)

Fin == \E bono \in BOOLEAN : FinCombate(bono)

Next ==
    \/ Generar
    \/ GenerarInvalida
    \/ Colocar
    \/ Crear
    \/ Mover
    \/ ExplorarInicio
    \/ Ronda
    \/ Fin

Spec == Init /\ [][Next]_vars

\* SpecCol: one generation with any sample of up to ColMaxN cells, then
\* the placement of the content; no explorer.
InitCol == InitCon(ColMaxAncho, ColMaxAlto, ColMaxCeldas)

GenerarCol ==
    /\ generada = "no"
    /\ \E n \in 1..Min(ColMaxN, ancho * alto) :
         \E muestra \in Muestras(n, ancho, alto) :
           \E p \in PosInicial(muestra, ancho, alto) :
             generar_estructura(n, muestra, p)

NextCol == GenerarCol \/ Colocar

SpecCol == InitCol /\ [][NextCol]_vars

\* SpecRegen: the run of Spec where the caller may call generar_estructura
\* again at any time between two calls, with any sample.
InitRegen == InitCon(RegenMaxCeldas, RegenMaxCeldas, RegenMaxCeldas)

Regenerar ==
    \E n \in 1..(ancho * alto) :
      \E muestra \in Muestras(n, ancho, alto) :
        \E p \in PosInicial(muestra, ancho, alto) :
          generar_estructura(n, muestra, p)

NextRegen ==
    \/ Regenerar
    \/ GenerarInvalida
    \/ Colocar
    \/ Crear
    \/ Mover
    \/ ExplorarInicio
    \/ Ronda
    \/ Fin

SpecRegen == InitRegen /\ [][NextRegen]_vars

\* SpecPelea: a map of two rooms in a row whose second room is given a
\* Monstruo built directly, Monstruo(nombre, vida, ataque), and an explorer
\* built at the start room with any vida up to the default; then moves and
\* explorations.
InitPelea ==
    /\ ancho = 2
    /\ alto = 1
    /\ \E v \in 1..PeleaMaxVida, a \in 1..PeleaMaxAtaque :
         habitaciones =
             [Construir(<<<<0, 0>>, <<1, 0>>>>, <<0, 0>>)
                 EXCEPT ![<<1, 0>>].contenido = Monstruo(v, a)]
    /\ habitacion_inicial = <<0, 0>>
    /\ generada = "ok"
    /\ posicion_actual = <<0, 0>>
    /\ vida \in 0..VidaInicial
    /\ inventario = <<>>
    /\ combate = SinCombate
    /\ ultimo = Llamada("crear", 0, "-", "ok", "-", 0)

NextPelea == Mover \/ ExplorarInicio \/ Ronda \/ Fin

SpecPelea == InitPelea /\ [][NextPelea]_vars

(***************************************************************************)
(* Properties                                                              *)
(***************************************************************************)
\* The rooms reachable from the rooms of S along conexiones.
RECURSIVE Cierre(_, _)
Cierre(habs, S) ==
    LET T == S \cup UNION {{habs[p].conexiones[d] :
                               d \in DOMAIN habs[p].conexiones} : p \in S}
    IN  IF T = S THEN S ELSE Cierre(habs, T)

GeneradaBien == ultimo.op = "generar" /\ ultimo.res = "ok"

\* C1: when generar_estructura(n) returns without error the map has n rooms
\* and every one of them is reachable from the start room along conexiones.
C1_TodasAlcanzables ==
    GeneradaBien =>
        /\ Cardinality(DOMAIN habitaciones) = ultimo.n
        /\ Cierre(habitaciones, {habitacion_inicial}) = DOMAIN habitaciones

\* A successful generation of three rooms in a row, the start at one end.
C1_Testigo ==
    /\ GeneradaBien
    /\ ultimo.n = 3
    /\ \E p \in DOMAIN habitaciones :
          /\ p # habitacion_inicial
          /\ \A d \in DOMAIN habitaciones[habitacion_inicial].conexiones :
                habitaciones[habitacion_inicial].conexiones[d] # p

\* C2: after colocar_contenido on a generated map the start room has no
\* content.
C2_InicialSinContenido ==
    ultimo.op = "colocar" =>
        \A p \in DOMAIN habitaciones :
            habitaciones[p].inicial => habitaciones[p].contenido = Nada

\* C3 as stated: generar_estructura(n) with n > ancho*alto or n < 1 fails
\* with the configuration error and leaves no rooms in the map, whatever the
\* map held before.
C3_SinHabitaciones ==
    (ultimo.op = "generar" /\ NInvalido(ultimo.n, ancho, alto)) =>
        (ultimo.res = "ValueError" /\ DOMAIN habitaciones = {})

\* C3 as amended: generar_estructura(n) with n > ancho*alto or n < 1 fails
\* with the configuration error and leaves in the map exactly the rooms that
\* were there before the call (none when the map was new).
C3_FallaYConserva ==
    [][(ultimo'.op = "generar" /\ NInvalido(ultimo'.n, ancho, alto)) =>
          (ultimo'.res = "ValueError"
              /\ DOMAIN habitaciones' = DOMAIN habitaciones)]_vars

\* A call with an invalid n has failed on a map that holds rooms.
C3_Testigo ==
    /\ ultimo.op = "generar"
    /\ ultimo.res = "ValueError"
    /\ DOMAIN habitaciones # {}

\* C4: a call of generar_estructura that fails with the configuration error
\* changes neither the rooms (content, conexiones, visitada) nor the start
\* room reference.
C4_SinMutacion ==
    [][(ultimo'.op = "generar" /\ ultimo'.res = "ValueError") =>
          (habitaciones' = habitaciones
              /\ habitacion_inicial' = habitacion_inicial)]_vars

\* The call failed on a map with content placed and a room visited.
C4_Testigo ==
    /\ ultimo.op = "generar"
    /\ ultimo.res = "ValueError"
    /\ habitacion_inicial # Ninguna
    /\ \E p \in DOMAIN habitaciones : habitaciones[p].contenido # Nada
    /\ \E p \in DOMAIN habitaciones : habitaciones[p].visitada

Resueltas == {"tesoro", "victoria", "derrota"}

\* C5: explorar_habitacion called right after a call that resolved a Tesoro,
\* a Monstruo or a Jefe in the same room returns the empty-room message and
\* changes neither vida nor inventario.
C5_SegundaVacia ==
    [][(ultimo.op = "explorar" /\ ultimo.res \in Resueltas
            /\ ultimo'.op = "explorar") =>
          (ultimo'.res = "vacia" /\ vida' = vida
              /\ inventario' = inventario)]_vars

\* The second call in a row has returned, after a lost fight.
C5_Testigo ==
    /\ ultimo.op = "explorar"
    /\ ultimo.res = "vacia"
    /\ ultimo.previa = "derrota"

\* The second call in a row has returned, after a treasure was taken.
C5_TestigoTesoro ==
    /\ ultimo.op = "explorar"
    /\ ultimo.res = "vacia"
    /\ ultimo.previa = "tesoro"

\* The second call in a row has returned, after a won fight.
C5_TestigoVictoria ==
    /\ ultimo.op = "explorar"
    /\ ultimo.res = "vacia"
    /\ ultimo.previa = "victoria"

\* C6: the explorer's vida is never below 0, and esta_vivo is false exactly
\* when vida is 0.
C6_VidaNoNegativa ==
    posicion_actual # Ninguna =>
        (vida >= 0 /\ (~esta_vivo(vida) <=> vida = 0))

\* The explorer has been brought to 0 in a fight with a Jefe (attack 2
\* against an odd vida: the last blow asked for more than was left).
C6_Testigo ==
    /\ combate.tipo = "Jefe"
    /\ vida = 0
    /\ inventario = <<>>
    /\ \A p \in DOMAIN habitaciones :
          habitaciones[p].visitada => p = posicion_actual

\* C7: the start room is on the border when a sampled cell is; when none
\* is, the start room is the first sampled cell, the room with id 0.
C7_InicialEnBorde ==
    habitacion_inicial # Ninguna =>
        /\ habitacion_inicial \in DOMAIN habitaciones
        /\ habitaciones[habitacion_inicial].inicial
        /\ IF \E p \in DOMAIN habitaciones : EsBorde(p, ancho, alto)
           THEN EsBorde(habitacion_inicial, ancho, alto)
           ELSE habitaciones[habitacion_inicial].id = 0

\* Two rooms, none on the border, and the start is the first sampled.
C7_Testigo ==
    /\ habitacion_inicial # Ninguna
    /\ Cardinality(DOMAIN habitaciones) = 2
    /\ \A p \in DOMAIN habitaciones : ~EsBorde(p, ancho, alto)
    /\ habitaciones[habitacion_inicial].id = 0

ConJefe == {p \in DOMAIN habitaciones : habitaciones[p].contenido.tipo = "Jefe"}

\* C8: colocar_contenido on a new map with a room other than the start
\* places exactly one Jefe (vida 5, ataque 2), on a corner, when a corner
\* holds a room, and none when no corner does.
C8_UnJefeEnEsquina ==
    (ultimo.op = "colocar" /\ Disponibles(habitaciones) # {}) =>
        IF Esquinas(ancho, alto) \cap DOMAIN habitaciones # {}
        THEN /\ Cardinality(ConJefe) = 1
             /\ ConJefe \subseteq Esquinas(ancho, alto)
             /\ \A p \in ConJefe :
                   /\ habitaciones[p].contenido.vida = 5
                   /\ habitaciones[p].contenido.ataque = 2
        ELSE ConJefe = {}

\* The explorer's room has the key dir in its conexiones.
HayConexion(dir) ==
    /\ posicion_actual \in DOMAIN habitaciones
    /\ dir \in DOMAIN habitaciones[posicion_actual].conexiones

\* C9: mover(direccion) returns False and changes nothing when no room
\* stands at the explorer's position or direccion is no key of the room's
\* conexiones.
C9_MoverFalla ==
    [][(ultimo'.op = "mover" /\ ~HayConexion(ultimo'.dir)) =>
          (ultimo'.res = "False"
              /\ UNCHANGED <<posicion_actual, vida, inventario,
                             habitaciones>>)]_vars

\* mover has failed for an explorer that stands where no room is.
C9_Testigo ==
    /\ ultimo.op = "mover"
    /\ ultimo.res = "False"
    /\ posicion_actual \notin DOMAIN habitaciones

\* mover has failed in a room that lacks the direction, after some play.
C9_TestigoSinLlave ==
    /\ ultimo.op = "mover"
    /\ ultimo.res = "False"
    /\ posicion_actual \in DOMAIN habitaciones
    /\ ultimo.dir \notin DOMAIN habitaciones[posicion_actual].conexiones
    /\ inventario # <<>>

\* C10: mover(direccion) with direccion a key of the room's conexiones
\* returns True, puts the explorer at the connected room, the cell next to
\* it in that direction, and changes nothing else.
C10_MoverExito ==
    [][(ultimo'.op = "mover" /\ HayConexion(ultimo'.dir)) =>
          (ultimo'.res = "True"
              /\ posicion_actual' =
                     habitaciones[posicion_actual].conexiones[ultimo'.dir]
              /\ posicion_actual' \in DOMAIN habitaciones
              /\ posicion_actual' = Mas(posicion_actual, ultimo'.dir)
              /\ UNCHANGED <<vida, inventario, habitaciones>>)]_vars

\* A move has succeeded with a visited room behind and loot in hand.
C10_Testigo ==
    /\ ultimo.op = "mover"
    /\ ultimo.res = "True"
    /\ inventario # <<>>
    /\ vida < VidaInicial
    /\ \E p \in DOMAIN habitaciones :
          p # posicion_actual /\ habitaciones[p].visitada

\* The last call was colocar_contenido.
Colocado == ultimo.op = "colocar"

ConTipo(t) == {p \in DOMAIN habitaciones : habitaciones[p].contenido.tipo = t}

\* The rooms other than the start room that the boss step left empty.
TrasJefeVacias ==
    {p \in DOMAIN habitaciones :
        ~habitaciones[p].inicial /\ habitaciones[p].contenido.tipo # "Jefe"}

C11_TestigoSinRestantes ==
    /\ Colocado
    /\ \E p \in DOMAIN habitaciones : ~habitaciones[p].inicial
    /\ TrasJefeVacias = {}
    /\ ConTipo("Monstruo") = {}

\* C12: after colocar_contenido on a fresh map with a room other than the
\* start room, the rooms holding a Tesoro are min(max(1, r2 div 5), r2), r2
\* being the rooms other than the start room left empty by the boss and the
\* monster steps, and the other r2 - that many rooms have no content.
C12_NumeroTesoros ==
    (Colocado /\ \E p \in DOMAIN habitaciones : ~habitaciones[p].inicial) =>
        LET r2 == Cardinality(TrasJefeVacias) - Cardinality(ConTipo("Monstruo"))
            quinto == IF r2 \div 5 > 1 THEN r2 \div 5 ELSE 1
            t == IF quinto < r2 THEN quinto ELSE r2
        IN  /\ Cardinality(ConTipo("Tesoro")) = t
            /\ Cardinality({p \in TrasJefeVacias :
                               habitaciones[p].contenido = Nada}) = r2 - t
            /\ \A p \in TrasJefeVacias :
                 habitaciones[p].contenido.tipo \in
                     {"Monstruo", "Tesoro", "Ninguno"}

\* One treasure placed and rooms other than the start room left empty.
C12_Testigo ==
    /\ Colocado
    /\ Cardinality(ConTipo("Tesoro")) = 1
    /\ \E p \in TrasJefeVacias : habitaciones[p].contenido = Nada

\* No room is left for the treasure step and no treasure is placed.
C12_TestigoSinRestantes ==
    /\ Colocado
    /\ \E p \in DOMAIN habitaciones : ~habitaciones[p].inicial
    /\ Cardinality(TrasJefeVacias) = Cardinality(ConTipo("Monstruo"))
    /\ ConTipo("Tesoro") = {}

\* C13: whenever the map holds rooms, also after a generation that raised,
\* every room is reachable from habitacion_inicial along conexiones.
C13_SiempreConexo ==
    habitaciones # MapaVacio =>
        /\ habitacion_inicial \in DOMAIN habitaciones
        /\ Cierre(habitaciones, {habitacion_inicial}) = DOMAIN habitaciones

\* C14: when generar_estructura(n) returns, also over an earlier topology
\* with content and visited rooms, the map holds n rooms at cells of the
\* grid with the ids 0..n-1, each without content and not visited, exactly
\* one of them inicial, and habitacion_inicial is that room; a call with a
\* valid n never raises for a missing start room.
C14_TopologiaNueva ==
    /\ (ultimo.op = "generar" => ultimo.res # "SinInicial")
    /\ GeneradaBien =>
         /\ Cardinality(DOMAIN habitaciones) = ultimo.n
         /\ DOMAIN habitaciones \subseteq TodasPosiciones(ancho, alto)
         /\ {habitaciones[p].id : p \in DOMAIN habitaciones}
                = 0..(ultimo.n - 1)
         /\ \A p \in DOMAIN habitaciones :
              /\ habitaciones[p].contenido = Nada
              /\ ~habitaciones[p].visitada
         /\ Cardinality({p \in DOMAIN habitaciones :
                            habitaciones[p].inicial}) = 1
         /\ habitacion_inicial \in DOMAIN habitaciones
         /\ habitaciones[habitacion_inicial].inicial

\* A generation that returned after the explorer had taken the reward of a
\* room of the earlier topology.
C14_Testigo ==
    /\ GeneradaBien
    /\ posicion_actual # Ninguna
    /\ inventario # <<>>

\* The rooms explorar_habitacion has marked.
Visitadas == {p \in DOMAIN habitaciones : habitaciones[p].visitada}

\* C15: when the loop of a boss fight has ended, an explorer with vida >= 1
\* gets the recompensa_especial appended once or twice and an explorer with
\* vida 0 keeps the inventario; the room's content is cleared either way.
C15_BotinJefe ==
    [][(combate.tipo = "Jefe" /\ combate'.tipo = "Ninguno") =>
          LET r == habitaciones[posicion_actual].contenido.recompensa
          IN  /\ r \in RecompensasJefe
              /\ vida >= 1 =>
                   inventario' \in {inventario \o <<r>>, inventario \o <<r, r>>}
              /\ vida = 0 => inventario' = inventario
              /\ vida >= 0
              /\ habitaciones'[posicion_actual].contenido = Nada]_vars

\* The boss room was the only room explored, the fight was won and the
\* bonus drawn: the same reward twice.
C15_Testigo ==
    /\ ultimo.op = "explorar"
    /\ ultimo.res = "victoria"
    /\ Visitadas = {posicion_actual}
    /\ habitaciones[posicion_actual].contenido = Nada
    /\ Len(inventario) = 2
    /\ inventario[1] = inventario[2]
    /\ inventario[1] \in RecompensasJefe

\* The loop of a boss fight has ended with the explorer at vida 0.
C15_TestigoDerrota ==
    /\ combate.tipo = "Jefe"
    /\ combate.rondas > 0
    /\ vida = 0

\* C16: when the loop of a fight with a Monstruo entered with vida >= 1 has
\* ended, either the monster's vida is 0 and the explorer's is >= 1, or the
\* explorer's is 0 and the monster's is >= 1, never both and never neither;
\* the inventario is unchanged and the room's content is cleared.
C16_FinMonstruo ==
    [][(/\ combate.tipo = "Monstruo"
        /\ combate'.tipo = "Ninguno"
        /\ combate.vida_entrada >= 1) =>
          LET gana == combate.enemigo_vida = 0 /\ vida >= 1
              pierde == vida = 0 /\ combate.enemigo_vida >= 1
          IN  /\ (gana /\ ~pierde) \/ (pierde /\ ~gana)
              /\ ultimo'.res = IF gana THEN "victoria" ELSE "derrota"
              /\ inventario' = inventario
              /\ habitaciones'[posicion_actual].contenido = Nada]_vars

\* A monster's room was the only room explored and the fight was won: no
\* reward in the inventario.
C16_Testigo ==
    /\ ultimo.op = "explorar"
    /\ ultimo.res = "victoria"
    /\ ultimo.rondas > 0
    /\ Visitadas = {posicion_actual}
    /\ habitaciones[posicion_actual].contenido = Nada
    /\ inventario = <<>>

\* The loop of a fight with a Monstruo has ended with the explorer at 0.
C16_TestigoDerrota ==
    /\ combate.tipo = "Monstruo"
    /\ combate.vida_entrada >= 1
    /\ combate.enemigo_vida >= 1
    /\ vida = 0

\* C17: explorar_habitacion on a room holding a Tesoro, whatever the vida
\* of the explorer, appends the recompensa as the last element of the
\* inventario, leaves vida and posicion_actual unchanged and clears the
\* room's content.
C17_TesoroSiempre ==
    [][(/\ ultimo'.op = "explorar"
        /\ combate.tipo = "Ninguno"
        /\ posicion_actual \in DOMAIN habitaciones
        /\ habitaciones[posicion_actual].contenido.tipo = "Tesoro") =>
          LET r == habitaciones[posicion_actual].contenido.recompensa
          IN  /\ ultimo'.res = "tesoro"
              /\ Len(inventario') = Len(inventario) + 1
              /\ inventario'[Len(inventario')] = r
              /\ SubSeq(inventario', 1, Len(inventario)) = inventario
              /\ vida' = vida
              /\ posicion_actual' = posicion_actual
              /\ habitaciones'[posicion_actual].contenido = Nada]_vars

\* A treasure taken by an explorer at vida 0 who already carried an object.
C17_Testigo ==
    /\ ultimo.op = "explorar"
    /\ ultimo.res = "tesoro"
    /\ vida = 0
    /\ Len(inventario) >= 2
    /\ inventario[Len(inventario)] \in ObjetosTesoro

\* C18: in every round of a fight exactly one side loses vida, the enemy 1
\* or the explorer min(ataque, vida); a fight of an enemy of vida m and
\* ataque a entered with vida h >= 1 plays at most m + ceil(h / a) - 1
\* rounds.
C18_RondaProgresa ==
    [][(combate.tipo # "Ninguno" /\ combate'.tipo # "Ninguno") =>
          LET c == habitaciones[posicion_actual].contenido
              h == combate.vida_entrada
              golpe == IF c.ataque < vida THEN c.ataque ELSE vida
          IN  /\ c.vida >= 1 /\ c.ataque >= 1 /\ h >= 1
              /\ combate'.rondas = combate.rondas + 1
              /\ \/ /\ combate'.enemigo_vida = combate.enemigo_vida - 1
                    /\ vida' = vida
                 \/ /\ combate'.enemigo_vida = combate.enemigo_vida
                    /\ vida' = vida - golpe
                    /\ vida' < vida
              /\ combate'.rondas
                     <= c.vida + ((h + c.ataque - 1) \div c.ataque) - 1]_vars

\* The loop has ended after the largest number of rounds: the enemy one
\* hit from 0 when the explorer fell, or the explorer one hit from 0 when
\* the enemy fell.
C18_Testigo ==
    /\ combate.tipo # "Ninguno"
    /\ combate.vida_entrada >= 1
    /\ ~SigueCombate
    /\ LET c == habitaciones[posicion_actual].contenido
       IN  combate.rondas =
               c.vida + ((combate.vida_entrada + c.ataque - 1) \div c.ataque) - 1

\* C19: explorar_habitacion marks the room at posicion_actual as visitada
\* whatever it holds and leaves the visitada of every other room; where no
\* room stands it returns the no-room message and changes nothing; over
\* mover and explorar_habitacion calls visitada never goes back to false.
C19_Visitada ==
    [][/\ (ultimo'.op = "explorar" /\ combate.tipo = "Ninguno") =>
            IF posicion_actual \in DOMAIN habitaciones
            THEN /\ ultimo'.res # "no_hay"
                 /\ DOMAIN habitaciones' = DOMAIN habitaciones
                 /\ habitaciones'[posicion_actual].visitada
                 /\ \A q \in DOMAIN habitaciones \ {posicion_actual} :
                      habitaciones'[q].visitada = habitaciones[q].visitada
            ELSE /\ ultimo'.res = "no_hay"
                 /\ UNCHANGED <<ancho, alto, habitaciones, habitacion_inicial,
                                generada, posicion_actual, vida, inventario,
                                combate>>
       /\ ultimo'.op \in {"mover", "explorar"} =>
            \A p \in DOMAIN habitaciones :
              habitaciones[p].visitada =>
                  p \in DOMAIN habitaciones' /\ habitaciones'[p].visitada]_vars

\* A lost fight in a room the explorer had not visited before: the room is
\* visitada, another room is not.
C19_Testigo ==
    /\ ultimo.op = "explorar"
    /\ ultimo.res = "derrota"
    /\ ultimo.rondas > 0
    /\ habitaciones[posicion_actual].visitada
    /\ \E q \in DOMAIN habitaciones : ~habitaciones[q].visitada

\* explorar_habitacion called where no room stands.
C19_TestigoSinHabitacion ==
    /\ ultimo.op = "explorar"
    /\ ultimo.res = "no_hay"
    /\ posicion_actual \notin DOMAIN habitaciones

\* C20: colocar_contenido on a map whose only room is the start room
\* changes nothing: no room, the start room on a corner included, receives
\* content.
C20_SoloInicial ==
    [][(/\ ultimo'.op = "colocar"
        /\ Cardinality(DOMAIN habitaciones) = 1
        /\ habitacion_inicial \in DOMAIN habitaciones) =>
          /\ habitaciones' = habitaciones
          /\ habitaciones'[habitacion_inicial].contenido = Nada
          /\ UNCHANGED <<ancho, alto, habitacion_inicial, generada,
                         posicion_actual, vida, inventario, combate>>]_vars

\* colocar_contenido has returned on a grid of several cells whose only
\* room is the start room, on a corner.
C20_Testigo ==
    /\ Colocado
    /\ ancho * alto > 1
    /\ DOMAIN habitaciones = {habitacion_inicial}
    /\ habitacion_inicial \in Esquinas(ancho, alto)
    /\ habitaciones[habitacion_inicial].contenido = Nada

\* The offsets and the opposite directions as the specification gives them.
Desplazada(p, d) ==
    CASE d = "norte" -> <<p[1], p[2] - 1>>
      [] d = "sur" -> <<p[1], p[2] + 1>>
      [] d = "este" -> <<p[1] + 1, p[2]>>
      [] d = "oeste" -> <<p[1] - 1, p[2]>>

Opuesta(d) ==
    CASE d = "norte" -> "sur"
      [] d = "sur" -> "norte"
      [] d = "este" -> "oeste"
      [] d = "oeste" -> "este"

\* C21: once generar_estructura has built the rooms, a room A has the
\* connection d exactly when a room B stands at A's cell moved by the offset
\* of d; that connection is B, and B's connection in the opposite direction
\* is A.  No connection has another key or another target.
C21_ConexionesSimetricas ==
    \A a \in DOMAIN habitaciones :
        /\ DOMAIN habitaciones[a].conexiones
               \subseteq {"norte", "sur", "este", "oeste"}
        /\ \A d \in {"norte", "sur", "este", "oeste"} :
             LET b == Desplazada(a, d)
             IN  /\ d \in DOMAIN habitaciones[a].conexiones
                        <=> b \in DOMAIN habitaciones
                 /\ d \in DOMAIN habitaciones[a].conexiones =>
                        /\ habitaciones[a].conexiones[d] = b
                        /\ Opuesta(d) \in DOMAIN habitaciones[b].conexiones
                        /\ habitaciones[b].conexiones[Opuesta(d)] = a

\* Three rooms built: two are neighbours and connected both ways, and one
\* has a neighbouring cell without a room, so a direction without connection.
C21_Testigo ==
    /\ ultimo.op = "generar"
    /\ Cardinality(DOMAIN habitaciones) = 3
    /\ \E a \in DOMAIN habitaciones :
         /\ "este" \in DOMAIN habitaciones[a].conexiones
         /\ "sur" \notin DOMAIN habitaciones[a].conexiones
         /\ Desplazada(a, "sur") \in TodasPosiciones(ancho, alto)

\* The cells of S joined to a cell of T by a chain of cells of S, each at
\* distance 1 along one axis from the one before.
RECURSIVE Contiguas(_, _)
Contiguas(S, T) ==
    LET U == T \cup {p \in S : \E q \in T :
                        \/ p[1] = q[1] /\ (p[2] = q[2] + 1 \/ p[2] = q[2] - 1)
                        \/ p[2] = q[2] /\ (p[1] = q[1] + 1 \/ p[1] = q[1] - 1)}
    IN  IF U = T THEN T ELSE Contiguas(S, U)

\* S is 4-connected on the grid.
Conexo4(S) == S = {} \/ Contiguas(S, {CHOOSE p \in S : TRUE}) = S

\* C22: for a valid n, generar_estructura(n) raises for disconnection
\* exactly when the sampled cells are not 4-connected, and otherwise returns;
\* with n = 1 or n = ancho * alto it always returns.
C22_DesconectadoSii ==
    (ultimo.op = "generar" /\ ultimo.n >= 1 /\ ultimo.n <= ancho * alto) =>
        /\ ultimo.res \in {"ok", "Desconectado"}
        /\ ultimo.res = "Desconectado" <=> ~Conexo4(DOMAIN habitaciones)
        /\ (ultimo.n = 1 \/ ultimo.n = ancho * alto) => ultimo.res = "ok"

\* Two diagonal cells of a 2x2 grid: the generation raises.
C22_Testigo ==
    /\ ancho = 2
    /\ alto = 2
    /\ ultimo.op = "generar"
    /\ ultimo.n = 2
    /\ ultimo.res = "Desconectado"
    /\ DOMAIN habitaciones = {<<0, 0>>, <<1, 1>>}

\* A generation of every cell of a grid of three cells returns.
C22_TestigoCompleto ==
    /\ ultimo.op = "generar"
    /\ ultimo.n = 3
    /\ ancho * alto = 3
    /\ ultimo.res = "ok"

\* C23: a fight with a Monstruo entered with vida >= 1 in which every draw
\* is a hit (the explorer's vida is still the one at entry) goes on while
\* fewer rounds than the monster's vida were played and ends after exactly
\* that many, with the explorer's vida unchanged, the victory reported and
\* the room's content cleared.
C23_TodoAciertos ==
    [][(/\ combate.tipo = "Monstruo"
        /\ combate.vida_entrada >= 1
        /\ vida = combate.vida_entrada) =>
          LET c == habitaciones[posicion_actual].contenido
          IN  /\ combate.rondas + combate.enemigo_vida = c.vida
              /\ combate'.tipo # "Ninguno" => combate.rondas < c.vida
              /\ combate'.tipo = "Ninguno" =>
                   /\ combate.rondas = c.vida
                   /\ ultimo'.res = "victoria"
                   /\ ultimo'.rondas = c.vida
                   /\ vida' = vida
                   /\ inventario' = inventario
                   /\ habitaciones'[posicion_actual].contenido = Nada]_vars

\* A monster of vida 1 beaten in one round by an explorer at full vida.
C23_Testigo ==
    /\ ultimo.op = "explorar"
    /\ ultimo.res = "victoria"
    /\ ultimo.rondas = 1
    /\ vida = VidaInicial
    /\ habitaciones[posicion_actual].contenido = Nada

\* A monster of vida 4 beaten in four rounds by an explorer at vida 1.
C23_TestigoCuatro ==
    /\ ultimo.op = "explorar"
    /\ ultimo.res = "victoria"
    /\ ultimo.rondas = 4
    /\ vida = 1

\* The rooms of habs holding content of tipo t.
Con(habs, t) == {p \in DOMAIN habs : habs[p].contenido.tipo = t}

\* The rooms of habs other than the start room that hold no content.
LibresDe(habs) ==
    {p \in DOMAIN habs : ~habs[p].inicial /\ habs[p].contenido = Nada}

\* The number of rooms a step takes from r candidates with the divisor d.
Cuota(r, d) ==
    LET parte == IF r \div d > 1 THEN r \div d ELSE 1
    IN  IF parte < r THEN parte ELSE r

C25_SiempreEnHabitacion ==
    [][/\ (ultimo'.op = "crear" /\ posicion_actual' = habitacion_inicial) =>
            posicion_actual' \in DOMAIN habitaciones'
       /\ posicion_actual \in DOMAIN habitaciones =>
            /\ posicion_actual' \in DOMAIN habitaciones'
            /\ ultimo'.op = "explorar" => ultimo'.res # "no_hay"
            /\ (ultimo'.op = "mover" /\ ultimo'.res = "True") =>
                   posicion_actual' = Desplazada(posicion_actual, ultimo'.dir)
            /\ (ultimo'.op = "mover" /\ ultimo'.res = "False") =>
                   posicion_actual' = posicion_actual]_vars

\* The explorer has moved off the start room, explored the room it reached
\* and then tried a direction without connection.
C25_Testigo ==
    /\ ultimo.op = "mover"
    /\ ultimo.res = "False"
    /\ posicion_actual \in DOMAIN habitaciones
    /\ posicion_actual # habitacion_inicial
    /\ habitaciones[posicion_actual].visitada

\* C26: over mover and explorar_habitacion calls vida never goes up and
\* stays 0 once it is 0, and the inventario before a step is a prefix of the
\* inventario after it; a fight entered with vida 0 plays no round, gives
\* no reward, reports the defeat and clears the room's content.
C26_VidaNoSube ==
    [][/\ ultimo'.op \in {"mover", "explorar"} =>
            /\ vida' <= vida
            /\ vida = 0 => vida' = 0
            /\ Len(inventario) <= Len(inventario')
            /\ SubSeq(inventario', 1, Len(inventario)) = inventario
       /\ (combate.tipo # "Ninguno" /\ combate.vida_entrada = 0) =>
            /\ combate.rondas = 0
            /\ combate'.tipo = "Ninguno"
            /\ ultimo'.res = "derrota"
            /\ ultimo'.rondas = 0
            /\ vida' = 0
            /\ inventario' = inventario
            /\ habitaciones'[posicion_actual].contenido = Nada]_vars

\* An explorer at vida 0 carrying a reward has explored a room with an
\* enemy: no round, the defeat, and the content is gone.
C26_Testigo ==
    /\ ultimo.op = "explorar"
    /\ ultimo.res = "derrota"
    /\ ultimo.rondas = 0
    /\ vida = 0
    /\ inventario # <<>>
    /\ habitaciones[posicion_actual].contenido = Nada
    /\ habitaciones[posicion_actual].visitada

====
